---- MODULE Spec2Model ----
(***************************************************************************)
(* scripts/check_function_complexity.py: the CI gate that measures the     *)
(* line extent of every Rust function and fails on functions longer than   *)
(* 100 lines.                                                              *)
(*                                                                         *)
(* Text is modelled as sequences of one-character strings.  Three          *)
(* specifications share the module:                                        *)
(*   Spec       the whole script: walk, locate, extent scan, report;       *)
(*   SpecScan   count_braces_outside_strings, one character per step;      *)
(*   SpecLocate fn_pattern.match on one line.                              *)
(***************************************************************************)
EXTENDS Integers, Sequences, FiniteSets, TLC

VARIABLES
    fs,                 \* root directory -> the files rglob("*.rs") yields, in order
    ALLOWED_FUNCTIONS,  \* the module-level allowlist (line 7)
    pc,                 \* position of the script
    call,               \* which find_large_functions call of line 84 is running (1, 2)
    src_dir,            \* find_large_functions: parameter
    rs_files,           \* find_large_functions: files the for loop of line 50 has left
    rs_file,            \* find_large_functions: the file being scanned
    lines,              \* content.split('\n')
    line_num,           \* 1-based line of the locator loop (line 58)
    fn_name, fn_start, brace_level, fn_lines, i,   \* lines 61-75
    violations,         \* find_large_functions: the list it returns
    main_violations,    \* __main__: violations (line 84)
    violation_found,    \* __main__: line 86
    k,                  \* __main__: position of the loop of line 87
    stdout,             \* the lines printed
    exit_code,          \* the process outcome; -1 while running
    measured,           \* history: one record per function measured (lines 61-77)
    cb,                 \* SpecScan: the frame of count_braces_outside_strings
    loc                 \* SpecLocate: one line and what fn_pattern.match made of it

progVars == <<fs, ALLOWED_FUNCTIONS, pc, call, src_dir, rs_files, rs_file, lines,
              line_num, fn_name, fn_start, brace_level, fn_lines, i, violations,
              main_violations, violation_found, k, stdout, exit_code, measured>>
vars == <<progVars, cb, loc>>

(***************************************************************************)
(* Bounds of the model.                                                    *)
(***************************************************************************)
MaxLineLen == 4      \* SpecScan: characters per line
MaxSmallLines == 3   \* Spec: lines of the exhaustively enumerated small files
MaxMods == 3         \* SpecLocate: modifier tokens before fn

\* The threshold __main__ passes to find_large_functions.
max_lines == 100

--------------------------------------------------------------------------
(***************************************************************************)
(* Generic helpers.                                                        *)
(***************************************************************************)
Range(s) == {s[n] : n \in DOMAIN s}

Last(s) == s[Len(s)]

RECURSIVE SeqsUpTo(_, _)
\* All sequences over S of length 0..n.
SeqsUpTo(S, n) ==
    IF n = 0 THEN {<<>>}
    ELSE LET shorter == SeqsUpTo(S, n - 1)
         IN  shorter \cup {Append(s, x) : s \in {t \in shorter : Len(t) = n - 1}, x \in S}

RECURSIVE Str(_)
\* The string made of a sequence of one-character strings.
Str(cs) == IF cs = <<>> THEN "" ELSE Head(cs) \o Str(Tail(cs))

--------------------------------------------------------------------------
(***************************************************************************)
(* count_braces_outside_strings (lines 9-45).                              *)
(***************************************************************************)
\* Locals of count_braces_outside_strings at the start of a line (lines 11-15).
ScanInit ==
    [in_string |-> FALSE, in_char |-> FALSE, escape_next |-> FALSE,
     count_open |-> 0, count_close |-> 0]

\* A degraded scanner: every brace is counted, whatever the literal state.
ScanStepNaive(st, ch) ==
    IF ch = "{" THEN [st EXCEPT !.count_open = @ + 1]
    ELSE IF ch = "}" THEN [st EXCEPT !.count_close = @ + 1]
    ELSE st

\* A scanner that skips the escaped character but forgets to clear escape_next.
ScanStepStickyEscape(st, ch) ==
    IF st.escape_next THEN st
    ELSE IF ch = "\\" THEN [st EXCEPT !.escape_next = TRUE]
    ELSE ScanStepNaive(st, ch)

\* A scanner without escapes: a backslash is an ordinary character.
ScanStepNoEscape(st, ch) ==
    IF st.in_string THEN
        IF ch = "\"" THEN [st EXCEPT !.in_string = FALSE] ELSE st
    ELSE IF st.in_char THEN
        IF ch = "'" THEN [st EXCEPT !.in_char = FALSE] ELSE st
    ELSE IF ch = "\"" THEN [st EXCEPT !.in_string = TRUE]
    ELSE IF ch = "'" THEN [st EXCEPT !.in_char = TRUE]
    ELSE ScanStepNaive(st, ch)

\* One iteration of the loop of lines 17-43 on character ch.
ScanStep(st, ch) ==
    IF st.escape_next THEN [st EXCEPT !.escape_next = FALSE]
    ELSE IF ch = "\\" THEN [st EXCEPT !.escape_next = TRUE]
    ELSE IF st.in_string THEN
        IF ch = "\"" THEN [st EXCEPT !.in_string = FALSE] ELSE st
    ELSE IF st.in_char THEN
        IF ch = "'" THEN [st EXCEPT !.in_char = FALSE] ELSE st
    ELSE IF ch = "\"" THEN [st EXCEPT !.in_string = TRUE]
    ELSE IF ch = "'" THEN [st EXCEPT !.in_char = TRUE]
    ELSE IF ch = "{" THEN [st EXCEPT !.count_open = @ + 1]
    ELSE IF ch = "}" THEN [st EXCEPT !.count_close = @ + 1]
    ELSE st

RECURSIVE ScanFrom(_, _)
\* The loop of lines 17-43 over the characters of line, from state st.
ScanFrom(st, line) ==
    IF line = <<>> THEN st ELSE ScanFrom(ScanStep(st, Head(line)), Tail(line))

\* The pair count_braces_outside_strings returns (line 45).
count_braces_outside_strings(line) ==
    LET st == ScanFrom(ScanInit, line) IN <<st.count_open, st.count_close>>

--------------------------------------------------------------------------
(***************************************************************************)
(* The Function Locator: fn_pattern (line 56) and its match (line 59).     *)
(* The pattern, anchored at the start of the line: any white space, then   *)
(* the optional groups "pub", "async", "unsafe" in that order, each with   *)
(* the white space after it, then "fn", white space, and a run of word     *)
(* characters, the name.                                                   *)
(* No alternative of the pattern can succeed where the greedy one fails    *)
(* (no keyword starts with a space or with the first letter of another),   *)
(* so the match is computed left to right without backtracking.            *)
(***************************************************************************)
\* The characters \s matches, among those a line can hold after split('\n').
WhiteSpace == {" ", "\t", "\r", "\f"}

\* The characters \w matches (ASCII lower case, digits, underscore).
WordChars ==
    {"a", "b", "c", "d", "e", "f", "g", "h", "i", "j", "k", "l", "m", "n", "o",
     "p", "q", "r", "s", "t", "u", "v", "w", "x", "y", "z", "_",
     "0", "1", "2", "3", "4", "5", "6", "7", "8", "9"}

RECURSIVE SkipWhile(_, _, _)
\* The first position q >= p of line whose character is not in S (Len + 1 if none):
\* where a greedy S* started at p ends.
SkipWhile(line, p, S) ==
    IF p <= Len(line) /\ line[p] \in S THEN SkipWhile(line, p + 1, S) ELSE p

\* Whether the characters of word stand in line at position p.
LooksAt(line, p, word) ==
    /\ p + Len(word) - 1 <= Len(line)
    /\ SubSeq(line, p, p + Len(word) - 1) = word

\* Whether  word\s+  matches at p.
KeywordAt(line, p, word) ==
    /\ LooksAt(line, p, word)
    /\ p + Len(word) <= Len(line)
    /\ line[p + Len(word)] \in WhiteSpace

\* The position after the optional group  (word\s+)?  tried at p.
OptKeyword(line, p, word) ==
    IF KeywordAt(line, p, word)
    THEN SkipWhile(line, p + Len(word), WhiteSpace)
    ELSE p

kw_pub == <<"p", "u", "b">>
kw_async == <<"a", "s", "y", "n", "c">>
kw_unsafe == <<"u", "n", "s", "a", "f", "e">>
kw_fn == <<"f", "n">>

\* A locator that accepts the three modifiers in any order and number.
RECURSIVE ModsEndAnyOrder(_, _)
ModsEndAnyOrder(line, p) ==
    IF KeywordAt(line, p, kw_pub) THEN ModsEndAnyOrder(line, OptKeyword(line, p, kw_pub))
    ELSE IF KeywordAt(line, p, kw_async) THEN ModsEndAnyOrder(line, OptKeyword(line, p, kw_async))
    ELSE IF KeywordAt(line, p, kw_unsafe) THEN ModsEndAnyOrder(line, OptKeyword(line, p, kw_unsafe))
    ELSE p

\* The position after  (?P<mods>(pub\s+)?(async\s+)?(unsafe\s+)?)  tried at p.
ModsEnd(line, p) ==
    OptKeyword(line, OptKeyword(line, OptKeyword(line, p, kw_pub), kw_async), kw_unsafe)

\* fn_pattern.match(line): whether it matched and group 'name' (lines 59-61).
fn_pattern_match(line) ==
    LET pFn   == ModsEnd(line, SkipWhile(line, 1, WhiteSpace))
        pName == SkipWhile(line, pFn + Len(kw_fn), WhiteSpace)
        pEnd  == SkipWhile(line, pName, WordChars)
    IN  IF KeywordAt(line, pFn, kw_fn) /\ pEnd > pName
        THEN [matched |-> TRUE, name |-> SubSeq(line, pName, pEnd - 1)]
        ELSE [matched |-> FALSE, name |-> <<>>]

--------------------------------------------------------------------------
(***************************************************************************)
(* Files: content, split into lines, and paths.                            *)
(***************************************************************************)
RECURSIVE Split(_)
\* content.split('\n') (line 53): never empty, and a trailing newline leaves a
\* last element that is the empty string.  Computed by halving at the middle
\* newline, which gives the same list as a left-to-right split.
Split(content) ==
    LET newlines == {p \in 1..Len(content) : content[p] = "\n"}
    IN  IF newlines = {} THEN <<content>>
        ELSE LET mid == CHOOSE p \in newlines :
                            Cardinality({q \in newlines : q <= p})
                                = (Cardinality(newlines) + 1) \div 2
             IN  Split(SubSeq(content, 1, mid - 1))
                     \o Split(SubSeq(content, mid + 1, Len(content)))

\* rs_file.relative_to(src_dir) (line 78): the path components below src_dir.
relative_to(path, dir) == SubSeq(path, 2, Len(path))

RECURSIVE JoinPath(_)
\* str() of a path (line 78): its components joined by "/".
JoinPath(path) ==
    IF Len(path) = 1 THEN path[1] ELSE path[1] \o "/" \o JoinPath(Tail(path))

\* key = f"{file}:{fn}" (line 88).
Key(file, fn) == file \o ":" \o fn

--------------------------------------------------------------------------
(***************************************************************************)
(* The inputs of a run: the two trees and the allowlist.                   *)
(***************************************************************************)
\* The roots __main__ scans, in the order of line 84.
Roots == <<"src", "crates">>

name_f == <<"f">>
name_g == <<"g">>

\* "fn <name>() {"
SigLine(name) == kw_fn \o <<" ">> \o name \o <<"(", ")", " ", "{">>
CloseLine == <<"}">>
FillLine == <<"x">>
\* The lines the small files are made of: an opening signature, a closing
\* brace, a brace-free line, a string literal holding an opening brace, a
\* signature whose braces balance on its own line, two closing braces, an
\* unterminated string literal hiding a closing brace, and a backslash that
\* ends the line.
SmallLines ==
    {SigLine(name_f), CloseLine, FillLine, <<"\"", "{", "\"">>,
     SigLine(name_g) \o <<"}">>, <<"}", "}">>, <<"\"", "}">>, <<"\\">>}

RECURSIVE JoinLines(_)
\* The lines joined by "\n" (by halves).
JoinLines(ls) ==
    IF ls = <<>> THEN <<>>
    ELSE IF Len(ls) = 1 THEN ls[1]
    ELSE LET h == Len(ls) \div 2
         IN  JoinLines(SubSeq(ls, 1, h)) \o <<"\n">> \o JoinLines(SubSeq(ls, h + 1, Len(ls)))

\* The content of a file of these lines, ending with a newline or not.
Content(ls, nl) == JoinLines(ls) \o (IF nl THEN <<"\n">> ELSE <<>>)

SmallContents ==
    {Content(ls, nl) : ls \in SeqsUpTo(SmallLines, MaxSmallLines) \ {<<>>}, nl \in BOOLEAN}

Fill(n) == [j \in 1..n |-> FillLine]

\* One function "f": signature, n brace-free lines, closing brace.
LongContent(n) == Content(<<SigLine(name_f)>> \o Fill(n) \o <<CloseLine>>, TRUE)
\* "g" inside "f", both longer than the threshold.
NestedContent ==
    Content(<<SigLine(name_f), SigLine(name_g)>> \o Fill(max_lines) \o <<CloseLine, CloseLine>>,
            TRUE)
\* Two functions of one name in one file, one inside the other, both over the
\* threshold.
TwinContent ==
    Content(<<SigLine(name_f), SigLine(name_f)>> \o Fill(max_lines) \o <<CloseLine, CloseLine>>,
            TRUE)
\* A signature whose body never closes, the file not ending with a newline.
UnclosedContent == Content(<<SigLine(name_f)>> \o Fill(max_lines + 1), FALSE)

\* Functions at the threshold: inclusive extents max_lines, max_lines + 1 and
\* max_lines + 2 lines.
LongContents == {LongContent(n) : n \in {max_lines - 2, max_lines - 1, max_lines}}

File(path, content, readable) ==
    [path |-> path, content |-> content, readable |-> readable]

\* Trees of small files: one readable file under src, exhaustively.
SmallTrees ==
    {[src |-> <<File(<<"src", "a.rs">>, c, TRUE)>>, crates |-> <<>>] : c \in SmallContents}

\* Trees of long files: up to two files under src and one under crates whose
\* relative path repeats one of src; any file may be unreadable.
SrcLists ==
    {<<>>}
    \cup {<<File(<<"src", "a.rs">>, c, r)>> :
            c \in LongContents \cup {NestedContent, TwinContent, UnclosedContent},
            r \in BOOLEAN}
    \cup {<<File(<<"src", "a.rs">>, c, r), File(<<"src", "cli", "b.rs">>, d, q)>> :
            c \in {LongContent(max_lines), LongContent(max_lines - 1), NestedContent},
            d \in {LongContent(max_lines), LongContent(max_lines - 1)},
            r \in BOOLEAN, q \in BOOLEAN}
CratesLists ==
    {<<>>} \cup {<<File(<<"crates", "a.rs">>, LongContent(max_lines), r)>> : r \in BOOLEAN}
LongTrees == {[src |-> s, crates |-> c] : s \in SrcLists, c \in CratesLists}

\* The keys the allowlist is drawn from: those of the functions above and one
\* that names no file.
AllowKeys == {"a.rs:f", "a.rs:g", "cli/b.rs:f", "gone.rs:h"}

--------------------------------------------------------------------------
(***************************************************************************)
(* The script as a state machine.                                          *)
(***************************************************************************)
\* Values of the frames the other two specifications use, while idle.
cbIdle == [pc |-> "idle"]
locIdle == [pc |-> "idle"]

\* The state when __main__ starts: nothing scanned, nothing printed.
InitProg(tree, allowed) ==
    /\ fs = tree
    /\ ALLOWED_FUNCTIONS = allowed
    /\ pc = "main"
    /\ call = 1
    /\ src_dir = ""
    /\ rs_files = <<>>
    /\ rs_file = <<>>
    /\ lines = <<>>
    /\ line_num = 0
    /\ fn_name = ""
    /\ fn_start = 0
    /\ brace_level = 0
    /\ fn_lines = 0
    /\ i = 0
    /\ violations = <<>>
    /\ main_violations = <<>>
    /\ violation_found = FALSE
    /\ k = 0
    /\ stdout = <<>>
    /\ exit_code = -1
    /\ measured = <<>>

Init ==
    /\ \/ \E tree \in SmallTrees : InitProg(tree, {})
       \/ \E tree \in LongTrees, allowed \in SUBSET AllowKeys : InitProg(tree, allowed)
    /\ cb = cbIdle
    /\ loc = locIdle

\* Line 84: __main__ calls find_large_functions(Roots[call], 100); line 48.
\* rglob yields nothing for a root that does not exist or holds no .rs file.
CallFind ==
    /\ pc = "main"
    /\ src_dir' = Roots[call]
    /\ rs_files' = fs[Roots[call]]
    /\ violations' = <<>>
    /\ pc' = "walk"
    /\ UNCHANGED <<fs, ALLOWED_FUNCTIONS, call, rs_file, lines, line_num, fn_name,
                   fn_start, brace_level, fn_lines, i, main_violations,
                   violation_found, k, stdout, exit_code, measured, cb, loc>>

\* A walker that skips a file it cannot read and goes on with the next.
ReadFailsSkip ==
    /\ pc = "walk"
    /\ rs_files # <<>>
    /\ ~Head(rs_files).readable
    /\ rs_files' = Tail(rs_files)
    /\ UNCHANGED <<fs, ALLOWED_FUNCTIONS, pc, call, src_dir, rs_file, lines, line_num,
                   fn_name, fn_start, brace_level, fn_lines, i, violations,
                   main_violations, violation_found, k, stdout, exit_code, measured,
                   cb, loc>>

\* Lines 50-52 when open() or read() raises: nothing catches the exception, the
\* interpreter prints the traceback to stderr and exits with status 1.
ReadFails ==
    /\ pc = "walk"
    /\ rs_files # <<>>
    /\ ~Head(rs_files).readable
    /\ pc' = "aborted"
    /\ exit_code' = 1
    /\ UNCHANGED <<fs, ALLOWED_FUNCTIONS, call, src_dir, rs_files, rs_file, lines,
                   line_num, fn_name, fn_start, brace_level, fn_lines, i, violations,
                   main_violations, violation_found, k, stdout, measured, cb, loc>>

\* Lines 50-53 and 58: the next file is read and split; the locator starts at line 1.
ReadFile ==
    /\ pc = "walk"
    /\ rs_files # <<>>
    /\ Head(rs_files).readable
    /\ rs_file' = Head(rs_files).path
    /\ rs_files' = Tail(rs_files)
    /\ lines' = Split(Head(rs_files).content)
    /\ line_num' = 1
    /\ pc' = "locate"
    /\ UNCHANGED <<fs, ALLOWED_FUNCTIONS, call, src_dir, fn_name, fn_start,
                   brace_level, fn_lines, i, violations, main_violations,
                   violation_found, k, stdout, exit_code, measured, cb, loc>>

\* Lines 58-66: the locator loop on line line_num; a match starts a measurement.
LocateLine ==
    /\ pc = "locate"
    /\ line_num <= Len(lines)
    /\ LET match == fn_pattern_match(lines[line_num])
       IN  IF match.matched
           THEN /\ fn_name' = Str(match.name)
                /\ fn_start' = line_num
                /\ brace_level' = 0
                /\ fn_lines' = 0
                /\ i' = line_num - 1
                /\ pc' = "extent"
                /\ UNCHANGED line_num
           ELSE /\ line_num' = line_num + 1
                /\ UNCHANGED <<fn_name, fn_start, brace_level, fn_lines, i, pc>>
    /\ UNCHANGED <<fs, ALLOWED_FUNCTIONS, call, src_dir, rs_files, rs_file, lines,
                   violations, main_violations, violation_found, k, stdout, exit_code,
                   measured, cb, loc>>

\* Line 58 when the lines are exhausted: back to the loop of line 50.
EndOfFile ==
    /\ pc = "locate"
    /\ line_num > Len(lines)
    /\ pc' = "walk"
    /\ UNCHANGED <<fs, ALLOWED_FUNCTIONS, call, src_dir, rs_files, rs_file, lines,
                   line_num, fn_name, fn_start, brace_level, fn_lines, i, violations,
                   main_violations, violation_found, k, stdout, exit_code, measured,
                   cb, loc>>

\* Line 69: fn_lines, from the 0-based index of the line and the 1-based fn_start.
FnLines(idx, start) == idx - start + 1

\* A scan that may also stop on the signature line.
LoopBreakAnyLine(level, idx, start) == level = 0

\* Line 74: the condition of the break.
LoopBreak(level, idx, start) == level = 0 /\ idx > start - 1

\* An extent loop whose literal flags outlive the line: each line after the
\* signature line is scanned from the flags the line before it ended with.
ExtentStepCarry ==
    /\ pc = "extent"
    /\ LET before == IF i > fn_start - 1 THEN ScanFrom(ScanInit, lines[i]) ELSE ScanInit
           after  == ScanFrom([before EXCEPT !.count_open = 0, !.count_close = 0],
                              lines[i + 1])
           level  == brace_level + after.count_open - after.count_close
       IN  /\ fn_lines' = i - fn_start + 1
           /\ brace_level' = level
           /\ IF (level = 0 /\ i > fn_start - 1) \/ i + 1 >= Len(lines)
              THEN pc' = "measured" /\ UNCHANGED i
              ELSE i' = i + 1 /\ UNCHANGED pc
    /\ UNCHANGED <<fs, ALLOWED_FUNCTIONS, call, src_dir, rs_files, rs_file, lines,
                   line_num, fn_name, fn_start, violations, main_violations,
                   violation_found, k, stdout, exit_code, measured, cb, loc>>

\* Lines 68-75: one iteration of the extent loop, on the line of 0-based index i.
ExtentStep ==
    /\ pc = "extent"
    /\ LET counts == count_braces_outside_strings(lines[i + 1])
           level  == brace_level + counts[1] - counts[2]
       IN  /\ fn_lines' = FnLines(i, fn_start)
           /\ brace_level' = level
           /\ IF LoopBreak(level, i, fn_start) \/ i + 1 >= Len(lines)
              THEN pc' = "measured" /\ UNCHANGED i
              ELSE i' = i + 1 /\ UNCHANGED pc
    /\ UNCHANGED <<fs, ALLOWED_FUNCTIONS, call, src_dir, rs_files, rs_file, lines,
                   line_num, fn_name, fn_start, violations, main_violations,
                   violation_found, k, stdout, exit_code, measured, cb, loc>>

\* Line 77: the threshold test.
OverThreshold(n, max) == n > max

\* A locator that goes on after the extent just measured, so that a signature
\* inside it is never measured.
RecordLengthSkipExtent ==
    /\ pc = "measured"
    /\ violations' =
         IF fn_lines > max_lines
         THEN Append(violations,
                     <<JoinPath(SubSeq(rs_file, 2, Len(rs_file))), fn_name, fn_start, fn_lines>>)
         ELSE violations
    /\ measured' = Append(measured,
                          [file |-> rs_file, name |-> fn_name, start_line |-> fn_start,
                           length_lines |-> fn_lines, end_line |-> i + 1,
                           closed |-> (brace_level = 0 /\ i > fn_start - 1),
                           total_lines |-> Len(lines)])
    /\ line_num' = i + 2
    /\ pc' = "locate"
    /\ UNCHANGED <<fs, ALLOWED_FUNCTIONS, call, src_dir, rs_files, rs_file, lines,
                   fn_name, fn_start, brace_level, fn_lines, i, main_violations,
                   violation_found, k, stdout, exit_code, cb, loc>>

\* Lines 77-79, then the next line of the loop of line 58.  The history
\* variable measured records the function whatever its length: where the scan
\* stopped (1-based) and whether the break of line 75 stopped it.
RecordLength ==
    /\ pc = "measured"
    /\ violations' =
         IF OverThreshold(fn_lines, max_lines)
         THEN Append(violations,
                     <<JoinPath(relative_to(rs_file, src_dir)), fn_name, fn_start, fn_lines>>)
         ELSE violations
    /\ measured' = Append(measured,
                          [file |-> rs_file, name |-> fn_name, start_line |-> fn_start,
                           length_lines |-> fn_lines, end_line |-> i + 1,
                           closed |-> LoopBreak(brace_level, i, fn_start),
                           total_lines |-> Len(lines)])
    /\ line_num' = line_num + 1
    /\ pc' = "locate"
    /\ UNCHANGED <<fs, ALLOWED_FUNCTIONS, call, src_dir, rs_files, rs_file, lines,
                   fn_name, fn_start, brace_level, fn_lines, i, main_violations,
                   violation_found, k, stdout, exit_code, cb, loc>>

\* A main block that puts what a call returned in front of what it already holds.
ReturnFindPrepend ==
    /\ pc = "walk"
    /\ rs_files = <<>>
    /\ main_violations' = violations \o main_violations
    /\ IF call < Len(Roots)
       THEN call' = call + 1 /\ pc' = "main" /\ UNCHANGED k
       ELSE k' = 1 /\ pc' = "report" /\ UNCHANGED call
    /\ UNCHANGED <<fs, ALLOWED_FUNCTIONS, src_dir, rs_files, rs_file, lines, line_num,
                   fn_name, fn_start, brace_level, fn_lines, i, violations,
                   violation_found, stdout, exit_code, measured, cb, loc>>

\* Line 81 and line 84: the call returns its list, which __main__ appends to
\* what the first call returned; after the second call the report starts.
ReturnFind ==
    /\ pc = "walk"
    /\ rs_files = <<>>
    /\ main_violations' = main_violations \o violations
    /\ IF call < Len(Roots)
       THEN call' = call + 1 /\ pc' = "main" /\ UNCHANGED k
       ELSE k' = 1 /\ pc' = "report" /\ UNCHANGED call
    /\ UNCHANGED <<fs, ALLOWED_FUNCTIONS, src_dir, rs_files, rs_file, lines, line_num,
                   fn_name, fn_start, brace_level, fn_lines, i, violations,
                   violation_found, stdout, exit_code, measured, cb, loc>>

\* A reporter that prints the allowlisted violations and drops the others.
SuppressedInverted(key) == key \notin ALLOWED_FUNCTIONS

\* A reporter that lets the allowlist exempt only the first violation of a key.
SuppressedFirstOnly(key) ==
    /\ key \in ALLOWED_FUNCTIONS
    /\ \A n \in 1..(k - 1) : Key(main_violations[n][1], main_violations[n][2]) # key

\* Line 89: whether the allowlist holds the key.
Suppressed(key) == key \in ALLOWED_FUNCTIONS

\* Line 90: the line printed for a violation.
ErrorLine(v) ==
    [kind |-> "ERROR", file |-> v[1], fn |-> v[2], line_num |-> v[3], lines |-> v[4]]

\* Lines 87-91: one iteration of the report loop.
Report ==
    /\ pc = "report"
    /\ k <= Len(main_violations)
    /\ LET v == main_violations[k]
       IN  IF ~Suppressed(Key(v[1], v[2]))
           THEN /\ stdout' = Append(stdout, ErrorLine(v))
                /\ violation_found' = TRUE
           ELSE UNCHANGED <<stdout, violation_found>>
    /\ k' = k + 1
    /\ UNCHANGED <<fs, ALLOWED_FUNCTIONS, pc, call, src_dir, rs_files, rs_file, lines,
                   line_num, fn_name, fn_start, brace_level, fn_lines, i, violations,
                   main_violations, exit_code, measured, cb, loc>>

\* Lines 94-97: the blank line and the three lines of guidance.
Guidance ==
    <<[kind |-> "blank"], [kind |-> "guidance"], [kind |-> "guidance"],
      [kind |-> "guidance"]>>

\* A script that always ends with success.
ExitStatusAlwaysZero(found) == 0

\* A script that also fails when the allowlist holds an entry no violation uses.
ExitStatusStrict(found) ==
    IF \/ found
       \/ \E key \in ALLOWED_FUNCTIONS :
              \A v \in Range(main_violations) : key # Key(v[1], v[2])
    THEN 1 ELSE 0

\* Lines 93-98: sys.exit(1) after a violation, the normal end (status 0) otherwise.
ExitStatus(found) == IF found THEN 1 ELSE 0

\* Lines 93-98: the end of the script.
Finish ==
    /\ pc = "report"
    /\ k > Len(main_violations)
    /\ stdout' = IF violation_found THEN stdout \o Guidance ELSE stdout
    /\ exit_code' = ExitStatus(violation_found)
    /\ pc' = "done"
    /\ UNCHANGED <<fs, ALLOWED_FUNCTIONS, call, src_dir, rs_files, rs_file, lines,
                   line_num, fn_name, fn_start, brace_level, fn_lines, i, violations,
                   main_violations, violation_found, k, measured, cb, loc>>

Next ==
    \/ CallFind
    \/ ReadFile
    \/ ReadFails
    \/ LocateLine
    \/ EndOfFile
    \/ ExtentStep
    \/ RecordLength
    \/ ReturnFind
    \/ Report
    \/ Finish

Spec == Init /\ [][Next]_vars

--------------------------------------------------------------------------
(***************************************************************************)
(* SpecScan: count_braces_outside_strings on one line, a character a step. *)
(***************************************************************************)
ScanAlphabet == {"{", "}", "\"", "'", "\\", "x"}

\* Lines 11-15: the call starts with its locals cleared.
InitScan ==
    /\ \E line \in SeqsUpTo(ScanAlphabet, MaxLineLen) :
           cb = [pc |-> "scan", line |-> line, i |-> 0,
                 in_string |-> FALSE, in_char |-> FALSE, escape_next |-> FALSE,
                 count_open |-> 0, count_close |-> 0]
    /\ loc = locIdle
    /\ InitProg([src |-> <<>>, crates |-> <<>>], {})

\* Lines 17-43: the loop body on the next character (cb.i characters are consumed).
ScanChar ==
    /\ cb.pc = "scan"
    /\ cb.i < Len(cb.line)
    /\ cb' = [ScanStep(cb, cb.line[cb.i + 1]) EXCEPT !.i = @ + 1]
    /\ UNCHANGED <<progVars, loc>>

\* Line 45: the loop is over, the counts are returned.
ScanReturn ==
    /\ cb.pc = "scan"
    /\ cb.i = Len(cb.line)
    /\ cb' = [cb EXCEPT !.pc = "returned"]
    /\ UNCHANGED <<progVars, loc>>

NextScan == ScanChar \/ ScanReturn

SpecScan == InitScan /\ [][NextScan]_vars

--------------------------------------------------------------------------
(***************************************************************************)
(* SpecLocate: fn_pattern.match on one line.  The line is rendered from    *)
(* tokens: an indent, modifier words each followed by a separator (which   *)
(* may be empty), "fn", a separator, a name (which may be empty), "()".    *)
(***************************************************************************)
mod_pub_crate == kw_pub \o <<"(", "c", "r", "a", "t", "e", ")">>
mod_const == <<"c", "o", "n", "s", "t">>
ModWords == {kw_pub, kw_async, kw_unsafe, mod_pub_crate, mod_const}
Separators == {<<>>, <<" ">>}
Indents == {<<>>, <<" ", "\t">>}
Names == {<<>>, <<"f", "_", "2">>}

RECURSIVE RenderMods(_)
RenderMods(mods) ==
    IF mods = <<>> THEN <<>>
    ELSE Head(mods).word \o Head(mods).sep \o RenderMods(Tail(mods))

RenderLine(indent, mods, sep, name) ==
    indent \o RenderMods(mods) \o kw_fn \o sep \o name \o <<"(", ")">>

InitLocate ==
    /\ \E indent \in Indents, sep \in Separators, name \in Names,
          mods \in SeqsUpTo([word : ModWords, sep : Separators], MaxMods) :
           loc = [pc |-> "line", indent |-> indent, mods |-> mods, sep |-> sep,
                  name |-> name, line |-> RenderLine(indent, mods, sep, name)]
    /\ cb = cbIdle
    /\ InitProg([src |-> <<>>, crates |-> <<>>], {})

\* Lines 59-61: the match and the name it extracts.
Locate ==
    /\ loc.pc = "line"
    /\ LET match == fn_pattern_match(loc.line)
       IN  loc' = [pc |-> "located", indent |-> loc.indent, mods |-> loc.mods,
                   sep |-> loc.sep, name |-> loc.name, line |-> loc.line,
                   matched |-> match.matched, fn_name |-> match.name]
    /\ UNCHANGED <<progVars, cb>>

NextLocate == Locate

SpecLocate == InitLocate /\ [][NextLocate]_vars

--------------------------------------------------------------------------
(***************************************************************************)
(* Properties.  Helpers first.                                             *)
(***************************************************************************)
Measured == Range(measured)

\* The inclusive number of lines from the signature line of m through the
\* line at which its scan stopped.
InclusiveExtent(m) == (m.end_line - m.start_line) + 1

\* The tuple line 79 appends for m, and whether a call has recorded it.
ViolationOf(m) == <<JoinPath(Tail(m.file)), m.name, m.start_line, m.length_lines>>
Recorded(m) == ViolationOf(m) \in Range(violations) \cup Range(main_violations)

ErrorsPrinted == {stdout[n] : n \in {j \in DOMAIN stdout : stdout[j].kind = "ERROR"}}

RECURSIVE ExpectedErrors(_, _)
\* The ERROR lines a reporter prints for the violations vs under allowlist allow.
ExpectedErrors(vs, allow) ==
    IF vs = <<>> THEN <<>>
    ELSE (IF Key(Head(vs)[1], Head(vs)[2]) \in allow THEN <<>> ELSE <<ErrorLine(Head(vs))>>)
             \o ExpectedErrors(Tail(vs), allow)

\* C1: every function whose depth returns to zero at a line e after its
\* signature line s is measured as (e - s) + 1 lines.
C1_InclusiveLength ==
    \A m \in Measured : m.closed => m.length_lines = InclusiveExtent(m)

\* C2: at threshold 100 a function of exactly 100 lines (signature through
\* closing line) is not recorded, and one of 101 lines is recorded.
C2_ThresholdBoundary ==
    \A m \in Measured :
        m.closed =>
            /\ InclusiveExtent(m) = max_lines => ~Recorded(m)
            /\ InclusiveExtent(m) = max_lines + 1 => Recorded(m)

\* C4: the ERROR lines printed are exactly those of the measured functions
\* longer than the threshold whose key the allowlist does not hold, and the run
\* fails exactly when there is one.
C4_ErrorsAreUnsuppressedViolations ==
    pc = "done" =>
        LET reportable == {m \in Measured :
                              /\ m.length_lines > max_lines
                              /\ Key(JoinPath(Tail(m.file)), m.name) \notin ALLOWED_FUNCTIONS}
        IN  /\ ErrorsPrinted = {ErrorLine(ViolationOf(m)) : m \in reportable}
            /\ (exit_code = 1) <=> (reportable # {})

\* C4 witness: a finished run that suppressed one violation and printed another.
C4_Witness ==
    /\ pc = "done"
    /\ \E a, b \in DOMAIN main_violations :
           /\ Key(main_violations[a][1], main_violations[a][2]) \in ALLOWED_FUNCTIONS
           /\ Key(main_violations[b][1], main_violations[b][2]) \notin ALLOWED_FUNCTIONS
           /\ ErrorLine(main_violations[b]) \in ErrorsPrinted
           /\ ErrorLine(main_violations[a]) \notin ErrorsPrinted
    /\ exit_code = 1

\* C5 as stated: the run has failed (exit status 1) if and only if a
\* violation line was printed.
C5_FailureIffViolationPrinted ==
    exit_code # -1 => ((exit_code = 1) <=> (ErrorsPrinted # {}))

\* C5 amended: a run in which every read succeeds ends with status 1 if a
\* violation line was printed and with status 0 and no guidance otherwise, and
\* no violation line is ever printed after a guidance line.
C5_OutcomeOfCompletedRun ==
    /\ pc = "done" =>
          /\ exit_code \in {0, 1}
          /\ (exit_code = 1) <=> (ErrorsPrinted # {})
          /\ ErrorsPrinted = {} => stdout = <<>>
          /\ ErrorsPrinted # {} => SubSeq(stdout, Len(stdout) - 3, Len(stdout)) = Guidance
    /\ \A a, b \in DOMAIN stdout :
          (a < b /\ stdout[a].kind # "ERROR") => stdout[b].kind # "ERROR"

\* C5 witness: a run that ended with failure after printing a violation and
\* the guidance, although another violation was allowlisted.
C5_Witness ==
    /\ pc = "done"
    /\ exit_code = 1
    /\ Len(main_violations) >= 2
    /\ Cardinality(ErrorsPrinted) = 1
    /\ stdout[Len(stdout)].kind = "guidance"

\* C6: a function whose depth never returns to zero is scanned to the last
\* line of the file and measured as the lines from its signature through that
\* last line.
C6_RunsToEndOfFile ==
    \A m \in Measured :
        ~m.closed =>
            /\ m.end_line = m.total_lines
            /\ m.length_lines = (m.total_lines - m.start_line) + 1

\* C7: every measured length is at least 1.
C7_LengthAtLeastOne ==
    \A m \in Measured : m.length_lines >= 1

\* C9: when a file of either tree cannot be read, nothing is ever printed and
\* the run never ends with success.
C9_ReadFailureAborts ==
    (\E r \in DOMAIN Roots : \E f \in Range(fs[Roots[r]]) : ~f.readable) =>
        /\ stdout = <<>>
        /\ exit_code # 0
        /\ pc # "done"

\* C9 witness: the run aborted on an unreadable file after a violation had
\* been collected from a file read before it.
C9_Witness ==
    /\ pc = "aborted"
    /\ exit_code = 1
    /\ Len(main_violations) + Len(violations) > 0
    /\ stdout = <<>>

\* C10: allowlist entries that match no over-threshold function change
\* nothing: the output and the outcome are those of the allowlist without them,
\* and no other line is printed.
C10_StaleEntriesInert ==
    pc = "done" =>
        LET live == {key \in ALLOWED_FUNCTIONS :
                        \E v \in Range(main_violations) : key = Key(v[1], v[2])}
            errors == ExpectedErrors(main_violations, live)
        IN  /\ stdout = (IF errors = <<>> THEN <<>> ELSE errors \o Guidance)
            /\ exit_code = (IF errors = <<>> THEN 0 ELSE 1)

\* C10 witness: a finished run whose allowlist named a file that does not
\* exist and a function that is measured but not over the threshold.
C10_Witness ==
    /\ pc = "done"
    /\ "gone.rs:h" \in ALLOWED_FUNCTIONS
    /\ \E m \in Measured :
           /\ m.length_lines <= max_lines
           /\ Key(JoinPath(Tail(m.file)), m.name) \in ALLOWED_FUNCTIONS
           /\ ~Recorded(m)
    /\ ErrorsPrinted # {}

--------------------------------------------------------------------------
(***************************************************************************)
(* Properties of the character scan (SpecScan).  Literal spans are defined *)
(* from the text of the line, not from the scanner's flags.                *)
(***************************************************************************)
\* The number of consecutive backslashes that end just before position p.
BackslashRun(line, p) ==
    LET others == {q \in 1..(p - 1) : line[q] # "\\"}
        lastOther == IF others = {} THEN 0 ELSE CHOOSE q \in others : \A r \in others : r <= q
    IN  (p - 1) - lastOther

\* Position p follows an unescaped backslash.
Escaped(line, p) == BackslashRun(line, p) % 2 = 1

\* Position p holds a quote that can delimit a literal.
Delimiter(line, p) == line[p] \in {"\"", "'"} /\ ~Escaped(line, p)

RECURSIVE InLiteralSpan(_, _)
\* Position p lies in a literal span: after a delimiter o that opens a literal
\* (one that lies in no span itself) and not after the next delimiter of the
\* same kind, which closes it.
InLiteralSpan(line, p) ==
    \E o \in 1..(p - 1) :
        /\ Delimiter(line, o)
        /\ ~InLiteralSpan(line, o)
        /\ \A c \in (o + 1)..(p - 1) : ~(Delimiter(line, c) /\ line[c] = line[o])

BracesOutsideLiterals(line, brace) ==
    {p \in DOMAIN line : line[p] = brace /\ ~InLiteralSpan(line, p)}

\* C3 as stated: the counts returned are the numbers of "{" and "}" that lie
\* outside every literal span of the line.
C3_CountsBracesOutsideLiterals ==
    cb.pc = "returned" =>
        /\ cb.count_open = Cardinality(BracesOutsideLiterals(cb.line, "{"))
        /\ cb.count_close = Cardinality(BracesOutsideLiterals(cb.line, "}"))

\* C3 amended: the counts returned are the numbers of "{" and "}" that lie
\* outside every literal span and do not follow an unescaped backslash; no
\* brace inside a literal is counted.
C3_CountsUnescapedBracesOutsideLiterals ==
    cb.pc = "returned" =>
        /\ cb.count_open =
             Cardinality({p \in BracesOutsideLiterals(cb.line, "{") : ~Escaped(cb.line, p)})
        /\ cb.count_close =
             Cardinality({p \in BracesOutsideLiterals(cb.line, "}") : ~Escaped(cb.line, p)})

\* C3 witness: the scan of a line with a brace inside a string literal and a
\* brace after it has returned, counting only the second.
C3_Witness ==
    /\ cb.pc = "returned"
    /\ cb.line = <<"\"", "{", "\"", "{">>
    /\ cb.count_open = 1

\* The file with every line that is just the string literal "{" replaced by
\* a brace-free line.
WithoutLiteralBrace(ls) ==
    [n \in DOMAIN ls |-> IF ls[n] = <<"\"", "{", "\"">> THEN FillLine ELSE ls[n]]

RECURSIVE ExtentFrom(_, _, _, _)
\* Lines 68-75 as a function: fn_lines when the loop is left, scanning ls from
\* the 0-based index idx with the depth at level.
ExtentFrom(ls, start, idx, level) ==
    LET counts == count_braces_outside_strings(ls[idx + 1])
        next   == level + counts[1] - counts[2]
    IN  IF LoopBreak(next, idx, start) \/ idx + 1 >= Len(ls)
        THEN FnLines(idx, start)
        ELSE ExtentFrom(ls, start, idx + 1, next)

\* C3, its consequence, checked under Spec on the small files: a function is
\* measured as if the string literals "{" in the file were brace-free lines.
C3_LiteralBraceKeepsExtent ==
    (pc = "measured" /\ Len(lines) <= MaxSmallLines + 1) =>
        fn_lines = ExtentFrom(WithoutLiteralBrace(lines), fn_start, fn_start - 1, 0)

\* A function with the string literal "{" in its body was measured up to its
\* closing brace.
C3_LiteralBraceSeen ==
    /\ pc = "measured"
    /\ lines = <<SigLine(name_f), <<"\"", "{", "\"">>, CloseLine>>
    /\ fn_lines = 2
    /\ brace_level = 0

(***************************************************************************)
(* Properties of the locator (SpecLocate).                                 *)
(***************************************************************************)
\* The place of a modifier word in the order the pattern fixes; 0 for a word
\* the pattern does not know.
ModRank(word) ==
    IF word = kw_pub THEN 1
    ELSE IF word = kw_async THEN 2
    ELSE IF word = kw_unsafe THEN 3
    ELSE 0

\* The tokens of the line are: modifiers among pub, async, unsafe, each at
\* most once and in that order, each followed by white space; then fn, white
\* space and a name.
InFixedOrder(l) ==
    /\ \A n \in DOMAIN l.mods : ModRank(l.mods[n].word) # 0 /\ l.mods[n].sep # <<>>
    /\ \A a, b \in DOMAIN l.mods : a < b => ModRank(l.mods[a].word) < ModRank(l.mods[b].word)
    /\ l.sep # <<>>
    /\ l.name # <<>>

\* C8: a line is recognised as a signature exactly when its modifiers are in
\* the fixed order, and the name extracted is its identifier.
C8_RecognisedIffFixedOrder ==
    loc.pc = "located" =>
        /\ loc.matched <=> InFixedOrder(loc)
        /\ loc.matched => loc.fn_name = loc.name

\* C8 witness: "pub async unsafe fn" was recognised, and "unsafe async fn" and
\* "pub(crate) fn" are lines the locator is given.
C8_Witness ==
    /\ loc.pc = "located"
    /\ loc.mods = <<[word |-> kw_pub, sep |-> <<" ">>], [word |-> kw_async, sep |-> <<" ">>],
                    [word |-> kw_unsafe, sep |-> <<" ">>]>>
    /\ loc.matched
    /\ loc.fn_name = <<"f", "_", "2">>

--------------------------------------------------------------------------
(***************************************************************************)
(* Properties of the extent scan (Spec).                                   *)
(***************************************************************************)
\* The files enumerated exhaustively: the current file has few lines.
SmallFile == Len(lines) <= MaxSmallLines + 1

RECURSIVE DepthAfter(_, _, _)
\* The depth accumulated over the lines start..e (1-based) of ls.
DepthAfter(ls, start, e) ==
    IF e < start THEN 0
    ELSE LET counts == count_braces_outside_strings(ls[e])
         IN  DepthAfter(ls, start, e - 1) + counts[1] - counts[2]

\* The first line after start at which the depth is exactly zero, or the last
\* line of the file when there is none.
FirstZeroAfter(ls, start) ==
    LET zeros == {e \in (start + 1)..Len(ls) : DepthAfter(ls, start, e) = 0}
    IN  IF zeros = {} THEN Len(ls) ELSE CHOOSE e \in zeros : \A z \in zeros : e <= z

\* C11: the scan of a function ends at the first line strictly after the
\* signature line at which the depth is exactly zero (the last line of the file
\* if there is none): never at the signature line when another line follows,
\* and the loop goes on after a later line only with a depth that is not zero.
C11_EndsAtFirstZeroAfterSignature ==
    /\ (pc = "measured" /\ SmallFile) => i + 1 = FirstZeroAfter(lines, fn_start)
    /\ (pc = "measured" /\ fn_start < Len(lines)) => i + 1 > fn_start
    /\ (pc = "extent" /\ i > fn_start) => brace_level # 0

\* C11 witness: after the signature the depth went from +1 to -1 on a line
\* with two closing braces, and the scan ended one line later, at depth zero.
C11_Witness ==
    /\ pc = "measured"
    /\ lines = <<SigLine(name_f), <<"}", "}">>, SigLine(name_f)>>
    /\ fn_start = 1
    /\ i = 2
    /\ brace_level = 0

--------------------------------------------------------------------------
(***************************************************************************)
(* Properties of the scan state (SpecScan).                                *)
(***************************************************************************)
\* A step of the scan that consumes one character.
ConsumesChar == cb.pc = "scan" /\ cb'.pc = "scan" /\ cb'.i = cb.i + 1

\* C12: in_string and in_char are never both true, and escape_next, when
\* true, is false again once the next character is consumed.
C12_ScanStateInvariant ==
    /\ [](cb.pc # "idle" => ~(cb.in_string /\ cb.in_char))
    /\ [][(ConsumesChar /\ cb.escape_next) => ~cb'.escape_next]_vars

\* C12 witness: inside a character literal a double quote did not open a
\* string, and the escape set by the backslash is cleared after one character.
C12_Witness ==
    /\ cb.pc = "scan"
    /\ cb.line = <<"'", "\"", "\\", "x">>
    /\ cb.i = 4
    /\ cb.in_char /\ ~cb.in_string
    /\ ~cb.escape_next

\* C13: the character after an unescaped backslash (by the text of the line:
\* after an odd run of backslashes) changes neither literal flag nor either
\* count, and leaves no escape pending, so an escaped backslash escapes nothing.
C13_EscapedCharIsInert ==
    [][(ConsumesChar /\ Escaped(cb.line, cb.i + 1)) =>
          /\ cb'.in_string = cb.in_string
          /\ cb'.in_char = cb.in_char
          /\ cb'.count_open = cb.count_open
          /\ cb'.count_close = cb.count_close
          /\ ~cb'.escape_next]_vars

\* C13 witness: the escaped quote did not end the string, and the brace after
\* it was not counted.
C13_Witness ==
    /\ cb.pc = "returned"
    /\ cb.line = <<"\"", "\\", "\"", "{">>
    /\ cb.in_string
    /\ cb.count_open = 0

--------------------------------------------------------------------------
(***************************************************************************)
(* Properties of the measurements of a file (Spec).                        *)
(***************************************************************************)
\* The brace delta of a line by its text alone: the unescaped braces outside
\* the literal spans that open and close on this line.
TextDelta(line) ==
    Cardinality({p \in BracesOutsideLiterals(line, "{") : ~Escaped(line, p)})
        - Cardinality({p \in BracesOutsideLiterals(line, "}") : ~Escaped(line, p)})

RECURSIVE TextDepth(_, _, _)
\* The sum of the deltas of the lines a..b (1-based) of ls.
TextDepth(ls, a, b) ==
    IF b < a THEN 0 ELSE TextDepth(ls, a, b - 1) + TextDelta(ls[b])

\* C14: the depth is the sum over the lines scanned so far of a delta that
\* depends on the characters of that line only: no literal and no escape left
\* open by a line reaches the next one.
C14_LineDeltasAreIndependent ==
    /\ (pc = "extent" /\ SmallFile) => brace_level = TextDepth(lines, fn_start, i)
    /\ (pc = "measured" /\ SmallFile) => brace_level = TextDepth(lines, fn_start, i + 1)

\* C14 witness: the closing brace on the line after an unterminated string
\* literal was counted and closed the function.
C14_Witness ==
    /\ pc = "measured"
    /\ lines = <<SigLine(name_f), <<"\"", "}">>, CloseLine>>
    /\ fn_start = 1
    /\ i = 2
    /\ brace_level = 0

\* The closing brace on the line after a trailing backslash was counted too.
C14_AfterTrailingBackslash ==
    /\ pc = "measured"
    /\ lines = <<SigLine(name_f), <<"\\">>, CloseLine>>
    /\ i = 2
    /\ brace_level = 0

\* The lines of the only file of a run over one small file.
OnlyFileLines == Split(fs.src[1].content)
OneSmallFile ==
    /\ Len(fs.src) = 1
    /\ fs.crates = <<>>
    /\ fs.src[1].readable
    /\ Len(OnlyFileLines) <= MaxSmallLines + 1

\* C15: every line that matches the pattern is measured exactly once, each
\* measurement starts at depth zero, and its result is the one the scan gives
\* on the lines from the signature to the end of the file alone.
C15_EachSignatureMeasuredOnItsOwn ==
    /\ (pc = "extent" /\ i = fn_start - 1) => (brace_level = 0 /\ fn_lines = 0)
    /\ (pc = "done" /\ OneSmallFile) =>
          LET ls == OnlyFileLines
              signatures == {n \in DOMAIN ls : fn_pattern_match(ls[n]).matched}
          IN  /\ Len(measured) = Cardinality(signatures)
              /\ \A n \in signatures :
                    \E a \in DOMAIN measured :
                        /\ measured[a].start_line = n
                        /\ measured[a].name = Str(fn_pattern_match(ls[n]).name)
                        /\ measured[a].length_lines =
                               ExtentFrom(SubSeq(ls, n, Len(ls)), 1, 0, 0)

\* C15 witness: "g" on line 2, inside the extent of "f" (lines 1-3), was
\* measured on its own, and "f" was measured through line 3.
C15_Witness ==
    /\ pc = "done"
    /\ OneSmallFile
    /\ OnlyFileLines = <<SigLine(name_f), SigLine(name_g) \o <<"}">>, CloseLine>>
    /\ Len(measured) = 2
    /\ measured[1].name = "f" /\ measured[1].end_line = 3 /\ measured[1].closed
    /\ measured[2].name = "g" /\ measured[2].start_line = 2

\* The measurements over the threshold, in the order they were made, and of
\* those the ones the allowlist does not hold.
OverMeasured == SelectSeq(measured, LAMBDA m : m.length_lines > max_lines)
ReportableMeasured ==
    SelectSeq(OverMeasured,
              LAMBDA m : Key(JoinPath(Tail(m.file)), m.name) \notin ALLOWED_FUNCTIONS)
PrintedErrors == SelectSeq(stdout, LAMBDA l : l.kind = "ERROR")

\* C16: the measurements of one file are contiguous and in strictly
\* increasing order of start line, every one under "src" comes before any
\* under "crates", the merged list holds the over-threshold measurements in
\* that order, each once, and the ERROR lines are printed in that order.
C16_EmittedInScanOrder ==
    /\ \A a, b \in DOMAIN measured :
          a < b =>
             /\ measured[a].file[1] = Roots[2] => measured[b].file[1] = Roots[2]
             /\ measured[a].file = measured[b].file =>
                   /\ measured[a].start_line < measured[b].start_line
                   /\ \A c \in a..b : measured[c].file = measured[a].file
    /\ pc \in {"report", "done"} =>
          main_violations = [n \in DOMAIN OverMeasured |-> ViolationOf(OverMeasured[n])]
    /\ pc = "done" =>
          PrintedErrors =
             [n \in DOMAIN ReportableMeasured |-> ErrorLine(ViolationOf(ReportableMeasured[n]))]

\* C16 witness: two violations of src/a.rs, then one of src/cli/b.rs, then
\* one of crates/a.rs, printed in that order.
C16_Witness ==
    /\ pc = "done"
    /\ Len(PrintedErrors) = 4
    /\ Len(ReportableMeasured) = 4
    /\ ReportableMeasured[1].file = <<"src", "a.rs">>
    /\ ReportableMeasured[2].file = <<"src", "a.rs">>
    /\ ReportableMeasured[1].start_line < ReportableMeasured[2].start_line
    /\ ReportableMeasured[3].file = <<"src", "cli", "b.rs">>
    /\ ReportableMeasured[4].file = <<"crates", "a.rs">>
    /\ PrintedErrors[4].file = "a.rs" /\ PrintedErrors[3].file = "cli/b.rs"

\* The over-threshold measurements of relative path rel and name fn, and the
\* ERROR lines printed for them.
SharingKey(rel, fn) ==
    {n \in DOMAIN OverMeasured :
        JoinPath(Tail(OverMeasured[n].file)) = rel /\ OverMeasured[n].name = fn}
PrintedFor(rel, fn) ==
    {n \in DOMAIN PrintedErrors : PrintedErrors[n].file = rel /\ PrintedErrors[n].fn = fn}

\* C17: of the over-threshold functions that share a relative path and a
\* name, a finished run has printed all (the allowlist does not hold their
\* key) or none (it does).
C17_SameKeySameFate ==
    pc = "done" =>
        \A a \in DOMAIN OverMeasured :
            LET rel == JoinPath(Tail(OverMeasured[a].file))
                fn == OverMeasured[a].name
                printed == Cardinality(PrintedFor(rel, fn))
            IN  /\ printed \in {0, Cardinality(SharingKey(rel, fn))}
                /\ (printed = 0) <=> (Key(rel, fn) \in ALLOWED_FUNCTIONS)

\* C17 witness: two functions "f" of src/a.rs and one of crates/a.rs, all over
\* the threshold, all suppressed by the one entry "a.rs:f".
C17_Witness ==
    /\ pc = "done"
    /\ "a.rs:f" \in ALLOWED_FUNCTIONS
    /\ Cardinality(SharingKey("a.rs", "f")) = 3
    /\ \E a, b, c \in SharingKey("a.rs", "f") :
          /\ a < b /\ b < c
          /\ OverMeasured[a].file = OverMeasured[b].file
          /\ OverMeasured[c].file[1] = Roots[2]
    /\ PrintedFor("a.rs", "f") = {}

\* The same three functions without the entry: all three are printed.
C17_AllReported ==
    /\ pc = "done"
    /\ "a.rs:f" \notin ALLOWED_FUNCTIONS
    /\ Cardinality(SharingKey("a.rs", "f")) = 3
    /\ Cardinality(PrintedFor("a.rs", "f")) = 3

====
